---- MODULE Spec2Model ----
(***************************************************************************)
(* Model of src/js/console.js: the command parser (parseCmd), the          *)
(* dispatcher (executeCmd) and the log operations of Log.console, acting   *)
(* on user.log and user.config.ui.                                         *)
(*                                                                         *)
(* JavaScript values.  A string is the sequence of its characters          *)
(* (<<"e","n","d">> is 'end').  The value undefined is the one-element      *)
(* sequence <<"undefined">>, which is no string (its element is not a      *)
(* character), so it differs from the nine-character string 'undefined'    *)
(* that the code stores in the e field of a running entry.  A number is a  *)
(* record [nan, n].  Arrays are sequences: index k of the code is k + 1.    *)
(***************************************************************************)
EXTENDS Integers, Sequences, FiniteSets, TLC

\* Longest user.log the model lets the operations build.
MaxLog == 3

\* Most pieces of text that follow the first token of a typed input line.
MaxPieces == 4

-----------------------------------------------------------------------------
\* Values

Undefined == <<"undefined">>

\* The string 'undefined' stored in e while an entry is running.
Open == <<"u","n","d","e","f","i","n","e","d">>

Num(k) == [nan |-> FALSE, n |-> k]
NaN == [nan |-> TRUE, n |-> 0]

\* Labels and texts the operations are called with.
A == <<"A">>
B == <<"B">>
P == <<"P">>
D == <<"D">>
Sectors == {A, B}
Projects == {P}
Descs == {D}
\* The (attr, value) pairs edit is called with.
EditInputs == {<<<<"s","e","c","t","o","r">>, B>>,
               <<<<"e","n","d">>, <<"1">>>>,
               <<<<"x">>, B>>}

\* The (category, oldName, newName) triples rename is called with.
RenameInputs == {<<<<"s","e","c","t","o","r">>, A, B>>,
                 <<<<"s","e","c","t","o","r">>, P, B>>,
                 <<<<"p","r","o","j","e","c","t">>, P, A>>,
                 <<<<"1">>, A, B>>}

\* Log.time (not in this file): toHex(new Date()) yields the hex text of the
\* current instant; convertDateTime(text) the hex text of a typed date/time,
\* or an invalid marker for text that is no date/time.
Hexes == {<<"5","a">>}
Invalid == <<"N","a","N">>
DateTexts == {<<"1">>}
convertDateTime(text) ==
  IF text = <<"1">> THEN <<"5","9">> ELSE Invalid

\* Row identifiers the operations are called with directly.
Ids == {NaN} \cup {Num(k) : k \in (0 - 2) .. (MaxLog + 1)}
EditIds == {NaN} \cup {Num(k) : k \in (0 - 1) .. MaxLog}

-----------------------------------------------------------------------------
\* Array primitives

\* ToIntegerOrInfinity of a number: NaN becomes 0.
ToInteger(x) == IF x.nan THEN 0 ELSE x.n

\* x - 1 on numbers: NaN - 1 is NaN.
Minus1(x) == IF x.nan THEN NaN ELSE Num(x.n - 1)

\* The index Array.prototype.slice / splice start from: a negative start
\* counts from the end, and the result is clamped to 0 .. length.
RelStart(len, start) ==
  LET r == ToInteger(start)
  IN IF r < 0 THEN (IF len + r < 0 THEN 0 ELSE len + r)
     ELSE (IF r > len THEN len ELSE r)

\* arr.slice(start): the elements from the start index on.
Slice(arr, start) == SubSeq(arr, RelStart(Len(arr), start) + 1, Len(arr))

\* x[0] === undefined, for an array x.
NoFirst(x) == Len(x) = 0

\* arr.splice(start, 1): the array without the element at the start index,
\* unchanged when the start index is arr.length.
Splice1(arr, start) ==
  LET k == RelStart(Len(arr), start)
  IN IF k >= Len(arr) THEN arr
     ELSE SubSeq(arr, 1, k) \o SubSeq(arr, k + 2, Len(arr))

\* key in arr, for an array arr: the keys of an array are its indices in
\* decimal and 'length', never its elements.
Digits == <<"0", "1", "2", "3", "4", "5", "6", "7", "8", "9">>
IndexKeys(arr) == {<<Digits[i]>> : i \in 1 .. Len(arr)}
InArray(key, arr) ==
  key \in IndexKeys(arr) \cup {<<"l","e","n","g","t","h">>}

-----------------------------------------------------------------------------
\* Strings

S_start == <<"s","t","a","r","t">>
S_begin == <<"b","e","g","i","n">>
S_stop == <<"s","t","o","p">>
S_end == <<"e","n","d">>
S_pause == <<"p","a","u","s","e">>
S_resume == <<"r","e","s","u","m","e">>
S_continue == <<"c","o","n","t","i","n","u","e">>
S_add == <<"a","d","d">>
S_edit == <<"e","d","i","t">>
S_delete == <<"d","e","l","e","t","e">>
S_set == <<"s","e","t">>
S_import == <<"i","m","p","o","r","t">>
S_export == <<"e","x","p","o","r","t">>
S_rename == <<"r","e","n","a","m","e">>
S_invert == <<"i","n","v","e","r","t">>

Range(f) == {f[i] : i \in DOMAIN f}

UpperCase == <<"A","B","C","D","E","F","G","H","I","J","K","L","M",
               "N","O","P","Q","R","S","T","U","V","W","X","Y","Z">>
LowerCase == <<"a","b","c","d","e","f","g","h","i","j","k","l","m",
               "n","o","p","q","r","s","t","u","v","w","x","y","z">>

\* String.prototype.toLowerCase
toLowerCase(str) ==
  [i \in 1 .. Len(str) |->
     IF \E k \in 1 .. 26 : UpperCase[k] = str[i]
     THEN LowerCase[CHOOSE k \in 1 .. 26 : UpperCase[k] = str[i]]
     ELSE str[i]]

\* str.split(' ', 1)[0]: the text before the first space, the whole text
\* when it has no space.
SplitFirst(str) ==
  LET spaces == {i \in 1 .. Len(str) : str[i] = " "}
  IN IF spaces = {} THEN str
     ELSE SubSeq(str, 1, (CHOOSE i \in spaces : \A j \in spaces : i <= j) - 1)

\* Number(v) for undefined and for strings of decimal digits; the empty
\* string is 0 and any other text is NaN.
RECURSIVE DigitsValue(_)
DigitsValue(str) ==
  IF Len(str) = 0 THEN 0
  ELSE 10 * DigitsValue(SubSeq(str, 1, Len(str) - 1))
       + ((CHOOSE k \in 1 .. 10 : Digits[k] = str[Len(str)]) - 1)
Number(v) ==
  IF v = Undefined THEN NaN
  ELSE IF \A i \in 1 .. Len(v) : v[i] \in Range(Digits)
  THEN Num(DigitsValue(v))
  ELSE NaN

-----------------------------------------------------------------------------
\* Command parser

startOp == <<S_start, S_begin>>
stopOp == <<S_stop, S_end, S_pause>>
resumeOp == <<S_resume, S_continue>>
addOp == <<S_add, S_continue>>
possibleOperations ==
  startOp \o stopOp \o resumeOp \o addOp \o
  <<S_edit, S_delete, S_set, S_import, S_export, S_rename, S_invert>>

\* The loop of quotedArgs from character i on.
RECURSIVE quotedArgsFrom(_, _, _, _, _)
quotedArgsFrom(str, i, args, quoteStart, arg) ==
  IF i > Len(str) THEN args
  ELSE IF str[i] = "\""
  THEN IF ~quoteStart
       THEN quotedArgsFrom(str, i + 1, args, TRUE, arg)
       ELSE quotedArgsFrom(str, i + 1, Append(args, arg), FALSE, <<>>)
  ELSE IF quoteStart
  THEN quotedArgsFrom(str, i + 1, args, quoteStart, Append(arg, str[i]))
  ELSE quotedArgsFrom(str, i + 1, args, quoteStart, arg)

\* quotedArgs with the characters outside the quotes kept as well.
RECURSIVE keepOutsideFrom(_, _, _, _, _)
keepOutsideFrom(str, i, args, quoteStart, arg) ==
  IF i > Len(str) THEN args
  ELSE IF str[i] = "\""
  THEN IF ~quoteStart
       THEN keepOutsideFrom(str, i + 1, args, TRUE, arg)
       ELSE keepOutsideFrom(str, i + 1, Append(args, arg), FALSE, <<>>)
  ELSE keepOutsideFrom(str, i + 1, args, quoteStart, Append(arg, str[i]))
quotedArgs_keepOutside(str) == keepOutsideFrom(str, 1, <<>>, FALSE, <<>>)

\* quotedArgs without the reset of arg after a closing quote.
RECURSIVE noResetFrom(_, _, _, _, _)
noResetFrom(str, i, args, quoteStart, arg) ==
  IF i > Len(str) THEN args
  ELSE IF str[i] = "\""
  THEN IF ~quoteStart
       THEN noResetFrom(str, i + 1, args, TRUE, arg)
       ELSE noResetFrom(str, i + 1, Append(args, arg), FALSE, arg)
  ELSE IF quoteStart
  THEN noResetFrom(str, i + 1, args, quoteStart, Append(arg, str[i]))
  ELSE noResetFrom(str, i + 1, args, quoteStart, arg)
quotedArgs_noReset(str) == noResetFrom(str, 1, <<>>, FALSE, <<>>)

quotedArgs(str) == quotedArgsFrom(str, 1, <<>>, FALSE, <<>>)

\* A Command, and the undefined parseCmd returns for a rejected input.
Command(operation, args) == [ok |-> TRUE, operation |-> operation, args |-> args]
Rejected == [ok |-> FALSE, operation |-> <<>>, args |-> <<>>]

parseCmd(str) ==
  LET operation == toLowerCase(SplitFirst(str))
  IN IF operation \notin Range(possibleOperations) THEN Rejected
     ELSE Command(operation, quotedArgs(str))

-----------------------------------------------------------------------------
\* State

VARIABLES
  log,      \* user.log
  ui,       \* user.config.ui: [bg, colour]
  call,     \* the last invocation: [op, id, args]
  notes,    \* the window.Notification messages of the last invocation
  updates,  \* the Log.options.update() calls of the last invocation
  cleared,  \* whether the last invocation called clearInterval(timer)
  err,      \* the error the last invocation raised, or "none"
  handlers, \* the handlers executeCmd called in the last invocation
  input,    \* the raw input line handed to parseCmd
  parsed    \* what parseCmd returned for it

vars == <<log, ui, call, notes, updates, cleared, err, handlers, input, parsed>>

Entry(s, e, c, t, d) == [s |-> s, e |-> e, c |-> c, t |-> t, d |-> d]

\* What one invocation does: the log and palette it leaves, what it emitted
\* and the error it raised.
Out(l, u, n, k, c, e) ==
  [log |-> l, ui |-> u, notes |-> n, updates |-> k, cleared |-> c, err |-> e,
   handlers |-> <<>>]

\* A return before any effect.
Return(l, u) == Out(l, u, <<>>, 0, FALSE, "none")

\* An uncaught TypeError before any effect.
Throw(l, u) == Out(l, u, <<>>, 0, FALSE, "TypeError")

Msg(text, parts) == [text |-> text, parts |-> parts]

-----------------------------------------------------------------------------
\* Log operations

startLog_noGuard(l, u, sect, proj, desc, now) ==
  Out(Append(l, Entry(now, Open, sect, proj, desc)), u,
      <<Msg("Log started", <<sect, proj, desc>>)>>, 1, FALSE, "none")

startLog(l, u, sect, proj, desc, now) ==
  IF Len(l) # 0 /\ Slice(l, Num(-1))[1].e = Open
  THEN Return(l, u)
  ELSE Out(Append(l, Entry(now, Open, sect, proj, desc)), u,
           <<Msg("Log started", <<sect, proj, desc>>)>>, 1, FALSE, "none")

addLog(l, u, sect, proj, desc, start, end) ==
  Out(Append(l, Entry(convertDateTime(start), convertDateTime(end),
                      sect, proj, desc)), u,
      <<Msg("Log added", <<sect, proj, desc>>)>>, 1, FALSE, "none")

endLog(l, u, now) ==
  LET last == Slice(l, Num(-1))[1]
  IN IF NoFirst(Slice(l, Num(-1))) THEN Throw(l, u)
     ELSE IF last.e # Open THEN Return(l, u)
     ELSE Out([l EXCEPT ![Len(l)].e = now], u,
              <<Msg("Log ended", <<last.c, last.t, last.d>>)>>, 1, TRUE, "none")

\* resume without the test of line 254.
resume_noGuard(l, u, id, now) ==
  LET entry == Slice(l, id)[1]
  IN IF NoFirst(Slice(l, id)) THEN Throw(l, u)
     ELSE Out(Append(l, Entry(now, Open, entry.c, entry.t, entry.d)), u,
              <<Msg("Log resumed", <<entry.c, entry.t, entry.d>>)>>,
              1, FALSE, "none")

resume_copyDesc(l, u, id, now) ==
  LET entry == Slice(l, id)[1]
  IN IF NoFirst(Slice(l, id)) THEN Throw(l, u)
     ELSE IF entry.e = Open THEN Return(l, u)
     ELSE Out(Append(l, Entry(now, Open, entry.c, entry.d, entry.d)), u,
              <<Msg("Log resumed", <<entry.c, entry.t, entry.d>>)>>,
              1, FALSE, "none")

resume(l, u, id, now) ==
  LET entry == Slice(l, id)[1]
  IN IF NoFirst(Slice(l, id)) THEN Throw(l, u)
     ELSE IF entry.e = Open THEN Return(l, u)
     ELSE Out(Append(l, Entry(now, Open, entry.c, entry.t, entry.d)), u,
              <<Msg("Log resumed", <<entry.c, entry.t, entry.d>>)>>,
              1, FALSE, "none")

delete(l, u, id) ==
  Out(Splice1(l, Minus1(id)), u, <<>>, 1, FALSE, "none")

\* user.log[id] === undefined, for a number id: so for NaN and for an id
\* outside the array.
NoEntry(l, id) == id.nan \/ id.n < 0 \/ id.n >= Len(l)

\* user.log[id].<field> = v, a TypeError when user.log[id] is undefined.
SetField(l, u, id, field, v) ==
  IF NoEntry(l, id) THEN Throw(l, u)
  ELSE Out([l EXCEPT ![id.n + 1] = [@ EXCEPT ![field] = v]], u,
           <<>>, 1, FALSE, "none")

\* edit with the project branch writing the description field.
edit_projectWritesD(l, u, id, attr, value) ==
  IF attr \in {<<"s","e","c">>, <<"s","e","c","t","o","r">>}
  THEN SetField(l, u, id, "c", value)
  ELSE IF attr \in {<<"t","i","t","l","e">>, <<"p","r","o">>,
                    <<"p","r","o","j","e","c","t">>}
  THEN SetField(l, u, id, "d", value)
  ELSE IF attr \in {<<"d","e","s","c">>, <<"d","s","c">>,
                    <<"d","e","s","c","r","i","p","t","i","o","n">>}
  THEN SetField(l, u, id, "d", value)
  ELSE IF attr = <<"s","t","a","r","t">>
  THEN SetField(l, u, id, "s", convertDateTime(value))
  ELSE IF attr = <<"e","n","d">>
  THEN SetField(l, u, id, "e", convertDateTime(value))
  ELSE Return(l, u)

edit(l, u, id, attr, value) ==
  IF attr \in {<<"s","e","c">>, <<"s","e","c","t","o","r">>}
  THEN SetField(l, u, id, "c", value)
  ELSE IF attr \in {<<"t","i","t","l","e">>, <<"p","r","o">>,
                    <<"p","r","o","j","e","c","t">>}
  THEN SetField(l, u, id, "t", value)
  ELSE IF attr \in {<<"d","e","s","c">>, <<"d","s","c">>,
                    <<"d","e","s","c","r","i","p","t","i","o","n">>}
  THEN SetField(l, u, id, "d", value)
  ELSE IF attr = <<"s","t","a","r","t">>
  THEN SetField(l, u, id, "s", convertDateTime(value))
  ELSE IF attr = <<"e","n","d">>
  THEN SetField(l, u, id, "e", convertDateTime(value))
  ELSE Return(l, u)

\* Log.data (not in this file): the entries of the log with the given
\* sector, and with the given project.
getEntriesBySector(l, name) == SelectSeq(l, LAMBDA x : x.c = name)
getEntriesByProject(l, name) == SelectSeq(l, LAMBDA x : x.t = name)

S_sector == <<"s","e","c","t","o","r">>
S_sec == <<"s","e","c">>
S_project == <<"p","r","o","j","e","c","t">>
S_pro == <<"p","r","o">>

RenameField(l, field, oldName, newName) ==
  [i \in 1 .. Len(l) |->
     IF l[i][field] = oldName THEN [l[i] EXCEPT ![field] = newName] ELSE l[i]]

rename(l, u, category, oldName, newName) ==
  IF ~InArray(category, <<S_sector, S_sec, S_project, S_pro>>)
  THEN Return(l, u)
  ELSE IF category = S_sector \/ category = S_sec
  THEN IF Len(getEntriesBySector(l, oldName)) = 0
       THEN Out(l, u, <<Msg("The sector does not exist in your logs",
                            <<oldName>>)>>, 0, FALSE, "none")
       ELSE Out(RenameField(l, "c", oldName, newName), u,
                <<Msg("The sector has been renamed", <<oldName, newName>>)>>,
                1, FALSE, "none")
  ELSE IF category = S_project \/ category = S_pro
  THEN IF Len(getEntriesByProject(l, oldName)) = 0
       THEN Out(l, u, <<Msg("The project does not exist in your logs",
                            <<oldName>>)>>, 0, FALSE, "none")
       ELSE Out(RenameField(l, "t", oldName, newName), u,
                <<Msg("The sector has been renamed", <<oldName, newName>>)>>,
                1, FALSE, "none")
  ELSE Return(l, u)

\* invert without the call of Log.options.update().
invert_noUpdate(l, u) ==
  Out(l, [bg |-> u.colour, colour |-> u.bg], <<>>, 0, FALSE, "none")

invert(l, u) ==
  Out(l, [bg |-> u.colour, colour |-> u.bg], <<>>, 1, FALSE, "none")

\* Log.options.set*, the file dialogs and the store are outside this file:
\* set, importUser and exportUser leave user.log and user.config.ui alone.
set(l, u, attr, value) == Return(l, u)
importUser(l, u) == Return(l, u)
exportUser(l, u) == Return(l, u)

-----------------------------------------------------------------------------
\* Dispatcher

\* cmd.args[k]: undefined past the end of the array.
Arg(args, k) == IF k < Len(args) THEN args[k + 1] ELSE Undefined

\* The properties this file gives the object Log.
LogProperties == {"console"}

\* key in Log.<name>, for an array-valued property: a TypeError when Log has
\* no such property (the right operand of in is undefined).
InLog(key, name, arr) ==
  IF name \notin LogProperties THEN "TypeError"
  ELSE IF InArray(key, arr) THEN "true"
  ELSE "false"

\* switch (true) selects a case by ===: a case whose label is a string is
\* never selected.
Bool(b) == [type |-> "boolean", val |-> IF b THEN "true" ELSE "false"]
StrLabel(str) == [type |-> "string", val |-> "string"]
Selected(label) == label = Bool(TRUE)

\* A call of handler h by the dispatcher, with what the handler does.
Invoke(h, out) == [out EXCEPT !.handlers = <<h>> \o @]

executeCmd(l, u, cmd, now) ==
  LET op == cmd.operation
      args == cmd.args
      c1 == InLog(op, "startOp", startOp)
      c2 == InLog(op, "stopOp", stopOp)
      c3 == InLog(op, "resumeOp", resumeOp)
      c4 == InLog(op, "addOp", addOp)
  IN IF c1 = "TypeError" THEN Throw(l, u)
     ELSE IF Selected(Bool(c1 = "true"))
     THEN Invoke("startLog", startLog(l, u, Arg(args, 0), Arg(args, 1), Arg(args, 2), now))
     ELSE IF c2 = "TypeError" THEN Throw(l, u)
     ELSE IF Selected(Bool(c2 = "true")) THEN Invoke("endLog", endLog(l, u, now))
     ELSE IF c3 = "TypeError" THEN Throw(l, u)
     ELSE IF Selected(Bool(c3 = "true")) THEN Invoke("resume", resume(l, u, Num(-1), now))
     ELSE IF c4 = "TypeError" THEN Throw(l, u)
     ELSE IF Selected(Bool(c4 = "true"))
     THEN Invoke("addLog", addLog(l, u, Arg(args, 0), Arg(args, 1), Arg(args, 2),
                   Arg(args, 3), Arg(args, 4)))
     ELSE IF Selected(StrLabel(S_edit))
     THEN IF Arg(args, 1) = Undefined THEN Throw(l, u)
          ELSE Invoke("edit", edit(l, u, Minus1(Number(Arg(args, 0))),
                      toLowerCase(Arg(args, 1)), Arg(args, 2)))
     ELSE IF Selected(StrLabel(S_delete))
     THEN Invoke("delete", delete(l, u, Minus1(Number(Arg(args, 0)))))
     ELSE IF Selected(StrLabel(S_set))
     THEN IF Arg(args, 0) = Undefined THEN Throw(l, u)
          ELSE Invoke("set", set(l, u, toLowerCase(Arg(args, 0)), Arg(args, 1)))
     ELSE IF Selected(StrLabel(S_import)) THEN Invoke("importUser", importUser(l, u))
     ELSE IF Selected(StrLabel(S_export)) THEN Invoke("exportUser", exportUser(l, u))
     ELSE IF Selected(StrLabel(S_rename))
     THEN Invoke("rename", rename(l, u, Arg(args, 0), Arg(args, 1), Arg(args, 2)))
     ELSE IF Selected(StrLabel(S_invert)) THEN Invoke("invert", invert(l, u))
     ELSE Return(l, u)

\* One input line: parsed, and dispatched unless the parser rejected it.
processInput(l, u, str, now) ==
  LET cmd == parseCmd(str)
  IN IF ~cmd.ok THEN Return(l, u) ELSE executeCmd(l, u, cmd, now)

\* "A" with its quotes, and the input lines the model types.
Q(str) == <<"\"">> \o str \o <<"\"">>
Sp == <<" ">>
Line_start == S_start \o Sp \o Q(A) \o Sp \o Q(P) \o Sp \o Q(D)
Line_end == S_end
Line_resume == S_resume
Line_delete1 == S_delete \o Sp \o Q(<<"1">>)
Line_delete2 == S_delete \o Sp \o Q(<<"2">>)
Line_xyz == <<"x","y","z">> \o Sp \o Q(A)
InputLines ==
  {Line_start, Line_end, Line_resume, Line_delete1, Line_delete2, Line_xyz}

-----------------------------------------------------------------------------
\* Actions

Do(op, id, args, out) ==
  /\ Len(out.log) <= MaxLog
  /\ log' = out.log
  /\ ui' = out.ui
  /\ call' = [op |-> op, id |-> id, args |-> args]
  /\ notes' = out.notes
  /\ updates' = out.updates
  /\ cleared' = out.cleared
  /\ err' = out.err
  /\ handlers' = out.handlers
  /\ UNCHANGED <<input, parsed>>

StartLog ==
  \E sect \in Sectors, proj \in Projects, desc \in Descs, now \in Hexes :
    Do("startLog", NaN, <<sect, proj, desc>>,
       startLog(log, ui, sect, proj, desc, now))

EndLog ==
  \E now \in Hexes : Do("endLog", NaN, <<>>, endLog(log, ui, now))

Resume ==
  \E id \in Ids, now \in Hexes :
    Do("resume", id, <<>>, resume(log, ui, id, now))

AddLog ==
  \E sect \in Sectors, proj \in Projects, desc \in Descs,
     start \in DateTexts, end \in DateTexts :
    Do("addLog", NaN, <<sect, proj, desc, start, end>>,
       addLog(log, ui, sect, proj, desc, start, end))

Delete ==
  \E id \in Ids : Do("delete", id, <<>>, delete(log, ui, id))

Edit ==
  \E id \in EditIds, in \in EditInputs :
    Do("edit", id, in, edit(log, ui, id, in[1], in[2]))

Rename ==
  \E in \in RenameInputs :
    Do("rename", NaN, in, rename(log, ui, in[1], in[2], in[3]))

Invert == Do("invert", NaN, <<>>, invert(log, ui))

ProcessInput ==
  \E str \in InputLines, now \in Hexes :
    Do("processInput", NaN, <<str>>, processInput(log, ui, str, now))

Init ==
  /\ log = <<>>
  /\ ui = [bg |-> "bg", colour |-> "fg"]
  /\ call = [op |-> "none", id |-> NaN, args |-> <<>>]
  /\ notes = <<>>
  /\ updates = 0
  /\ cleared = FALSE
  /\ err = "none"
  /\ handlers = <<>>
  /\ input = <<>>
  /\ parsed = Rejected

Next ==
  \/ StartLog
  \/ EndLog
  \/ Resume
  \/ AddLog
  \/ Delete
  \/ Edit
  \/ Rename
  \/ Invert
  \/ ProcessInput

Spec == Init /\ [][Next]_vars

-----------------------------------------------------------------------------
\* The parser alone: an input line is typed, parsed, and the accepted
\* command is typed again as its operation followed by its quoted arguments.

S_new == <<"n","e","w">>

\* First tokens: every alias of the grammar comment, in lower and mixed
\* case, and tokens that are no alias.
FirstTokens ==
  Range(possibleOperations) \cup
  {S_new, <<"x","y","z">>, <<"E","n","d">>, <<"A","D","D">>, <<>>}

\* What follows the first token: pieces of text put one after the other.
Pieces == {<<"\"">>, <<"a">>, <<" ">>, <<" ","\"","a"," ","b","\"">>}

RECURSIVE Flatten(_)
Flatten(ps) == IF Len(ps) = 0 THEN <<>> ELSE ps[1] \o Flatten(Tail(ps))

Tails == {Flatten(ps) : ps \in UNION {[1 .. n -> Pieces] : n \in 0 .. MaxPieces}}
ParseInputs == {tok \o tl : tok \in FirstTokens, tl \in Tails}

\* The line "operation" followed by each argument in double quotes.
RECURSIVE QuoteAll(_)
QuoteAll(args) ==
  IF Len(args) = 0 THEN <<>> ELSE Sp \o Q(args[1]) \o QuoteAll(Tail(args))
Reconstruct(c) == c.operation \o QuoteAll(c.args)

InitParse ==
  /\ log = <<>>
  /\ ui = [bg |-> "bg", colour |-> "fg"]
  /\ call = [op |-> "none", id |-> NaN, args |-> <<>>]
  /\ notes = <<>>
  /\ updates = 0
  /\ cleared = FALSE
  /\ err = "none"
  /\ handlers = <<>>
  /\ input \in ParseInputs
  /\ parsed = Rejected

ParseCmd ==
  /\ call.op = "none"
  /\ parsed' = parseCmd(input)
  /\ call' = [op |-> "parseCmd", id |-> NaN, args |-> <<input>>]
  /\ UNCHANGED <<log, ui, notes, updates, cleared, err, handlers, input>>

Reparse ==
  /\ call.op = "parseCmd"
  /\ parsed.ok
  /\ input' = Reconstruct(parsed)
  /\ parsed' = parseCmd(Reconstruct(parsed))
  /\ call' = [op |-> "reparse", id |-> NaN, args |-> <<input>>]
  /\ UNCHANGED <<log, ui, notes, updates, cleared, err, handlers>>

NextParse ==
  \/ ParseCmd
  \/ Reparse

SpecParse == InitParse /\ [][NextParse]_vars

-----------------------------------------------------------------------------
\* The dispatcher called with a Command, on logs built by startLog and endLog.

CommandOperations ==
  Range(possibleOperations) \cup {S_new, <<"x","y","z">>, <<"0">>}
CommandArgs == {<<>>, <<A>>, <<A, P, D>>, <<<<"1">>, S_sector, B>>}
Commands == {Command(op, args) : op \in CommandOperations, args \in CommandArgs}

ExecuteCmd ==
  \E c \in Commands, now \in Hexes :
    Do("executeCmd", NaN, <<c.operation>> \o c.args,
       executeCmd(log, ui, c, now))

NextDispatch ==
  \/ StartLog
  \/ EndLog
  \/ ExecuteCmd

SpecDispatch == Init /\ [][NextDispatch]_vars

-----------------------------------------------------------------------------
\* One edit, with every attribute name, of a log built by startLog and endLog.

S_title == <<"t","i","t","l","e">>
S_desc == <<"d","e","s","c">>
S_dsc == <<"d","s","c">>
S_description == <<"d","e","s","c","r","i","p","t","i","o","n">>

EditAllInputs ==
  {<<attr, B>> : attr \in {S_sector, S_sec, S_project, S_title, S_pro,
                           S_description, S_desc, S_dsc,
                           <<"x">>, <<"S","e","c","t","o","r">>, <<>>}}
  \cup {<<S_start, <<"1">>>>, <<S_end, <<"1">>>>}

EditAny ==
  \E id \in EditIds, in \in EditAllInputs :
    Do("edit", id, in, edit(log, ui, id, in[1], in[2]))

NextEdit ==
  \/ call.op # "edit" /\ StartLog
  \/ call.op # "edit" /\ EndLog
  \/ call.op # "edit" /\ EditAny

SpecEdit == Init /\ [][NextEdit]_vars

-----------------------------------------------------------------------------
\* startLog, endLog and resume() with its default id alone.

CoreProjects == {P, D}

StartCore ==
  \E sect \in Sectors, proj \in CoreProjects, desc \in Descs, now \in Hexes :
    Do("startLog", NaN, <<sect, proj, desc>>,
       startLog(log, ui, sect, proj, desc, now))

ResumeLast ==
  \E now \in Hexes :
    Do("resume", Num(-1), <<>>, resume(log, ui, Num(-1), now))

NextCore ==
  \/ StartCore
  \/ EndLog
  \/ ResumeLast

SpecCore == Init /\ [][NextCore]_vars

-----------------------------------------------------------------------------
\* Claims

Last(l) == l[Len(l)]
LastIsOpen(l) == Len(l) # 0 /\ Last(l).e = Open
NoneOpen(l) == \A i \in 1 .. Len(l) : l[i].e # Open

\* C1: after any sequence of the log operations on an initially empty log, at
\* most one entry has e = Open, and such an entry is the last one.
C1_OneOpenAndLast ==
  \A i \in 1 .. Len(log) : log[i].e = Open => i = Len(log)

\* C2: startLog invoked while the last entry exists and is Open changes
\* nothing: the log is the same, no notification, no refresh, no error.
C2_StartWhileOpenIsNoOp ==
  [][(call'.op = "startLog" /\ LastIsOpen(log))
       => /\ log' = log
          /\ ui' = ui
          /\ notes' = <<>>
          /\ updates' = 0
          /\ err' = "none"]_vars

\* A start that was refused: invoked, nothing emitted, the last entry Open.
C2_Witness ==
  /\ call.op = "startLog"
  /\ notes = <<>>
  /\ updates = 0
  /\ LastIsOpen(log)

\* C3: endLog on a log with no Open entry (the empty log, or a log whose last
\* entry is closed) raises no error, leaves the log unchanged and emits no
\* notification, no clock-cancel and no refresh.
C3_StopWithoutOpenIsNoOp ==
  [][(call'.op = "endLog" /\ NoneOpen(log))
       => /\ err' = "none"
          /\ log' = log
          /\ notes' = <<>>
          /\ ~cleared'
          /\ updates' = 0]_vars

\* C4: the input line start "A" "P" "D" on a log with no Open entry appends
\* exactly one entry with c = A, t = P, d = D, e = Open; the input line end
\* right after it sets that entry's e to a boundary that is not Open, changes
\* nothing else and cancels the clock.
C4_StartLineThenEndLine ==
  [][/\ (/\ call'.op = "processInput"
         /\ call'.args = <<Line_start>>
         /\ NoneOpen(log)
         /\ Len(log) < MaxLog)
        => /\ Len(log') = Len(log) + 1
           /\ SubSeq(log', 1, Len(log)) = log
           /\ Last(log').c = A /\ Last(log').t = P /\ Last(log').d = D
           /\ Last(log').e = Open
     /\ (/\ call.op = "processInput" /\ call.args = <<Line_start>>
         /\ call'.op = "processInput" /\ call'.args = <<Line_end>>
         /\ LastIsOpen(log))
        => /\ Len(log') = Len(log)
           /\ Last(log').e # Open
           /\ log' = [log EXCEPT ![Len(log)].e = Last(log').e]
           /\ cleared']_vars

\* The entry resume(id) refers to: the last one for id = -1, counting from
\* the end for the other negative ids, the one at index id otherwise.
RefIndex(l, id) == IF id.n < 0 THEN Len(l) + id.n + 1 ELSE id.n + 1
RefExists(l, id) == ~id.nan /\ RefIndex(l, id) \in 1 .. Len(l)

\* C5: resume invoked when the referenced entry exists and is closed appends
\* exactly one entry with the referenced entry's sector, project and
\* description and with e = Open, and leaves every earlier entry unchanged.
C5_ResumeAppendsCopy ==
  [][(/\ call'.op = "resume"
      /\ RefExists(log, call'.id)
      /\ log[RefIndex(log, call'.id)].e # Open
      /\ Len(log) < MaxLog)
       => /\ Len(log') = Len(log) + 1
          /\ SubSeq(log', 1, Len(log)) = log
          /\ Last(log').c = log[RefIndex(log, call'.id)].c
          /\ Last(log').t = log[RefIndex(log, call'.id)].t
          /\ Last(log').d = log[RefIndex(log, call'.id)].d
          /\ Last(log').e = Open]_vars

\* A resume of the first of three entries, which is closed, and a default
\* resume of a closed last entry.
C5_Witness ==
  /\ call.op = "resume"
  /\ call.id \in {Num(0), Num(-1)}
  /\ err = "none"
  /\ updates = 1
  /\ Len(log) = 3
  /\ log[1].e # Open
  /\ log[2].e # Open
  /\ LastIsOpen(log)

\* C6: resume with its default index, when the last entry is Open or the log
\* is empty, raises no error, leaves the log unchanged and emits no
\* notification.
C6_ResumeNothingIsNoOp ==
  [][(/\ call'.op = "resume"
      /\ call'.id = Num(-1)
      /\ (Len(log) = 0 \/ LastIsOpen(log)))
       => /\ err' = "none"
          /\ log' = log
          /\ notes' = <<>>]_vars

\* l without the entry at 0-based index k.
Without(l, k) == SubSeq(l, 1, k) \o SubSeq(l, k + 2, Len(l))

\* C7: for a log of n entries and a row number k in 1 .. n, the delete
\* command for row k removes exactly the entry at 0-based index k - 1, both
\* as the input line delete "k" and as the dispatcher's conversion
\* Number("k") - 1 handed to delete.
C7_DeleteRowK ==
  [][/\ \A k \in 1 .. Len(log) :
          (/\ call'.op = "processInput"
           /\ call'.args = <<S_delete \o Sp \o Q(<<Digits[k + 1]>>)>>)
            => log' = Without(log, k - 1)
     /\ \A k \in 1 .. Len(log) :
          (/\ call'.op = "delete"
           /\ call'.id = Minus1(Number(<<Digits[k + 1]>>)))
            => log' = Without(log, k - 1)]_vars

\* C8: delete(id) with an id that is no position of the log (negative, at
\* least the length, or NaN) removes nothing and raises no error.
C8_DeleteAbsentIsNoOp ==
  [][(/\ call'.op = "delete"
      /\ (call'.id.nan \/ call'.id.n < 0 \/ call'.id.n >= Len(log)))
       => /\ log' = log
          /\ err' = "none"]_vars

\* C9: rename("sector", old, new) on a log with an entry of sector old sets
\* the sector of exactly the entries of sector old to new, changes nothing
\* else and emits a success notification; rename("project", old, new) does
\* the same to the project field.
C9_RenameRewritesMatches ==
  [][/\ (/\ call'.op = "rename"
         /\ call'.args[1] = S_sector
         /\ \E i \in 1 .. Len(log) : log[i].c = call'.args[2])
        => /\ log' = [i \in 1 .. Len(log) |->
                        IF log[i].c = call'.args[2]
                        THEN [log[i] EXCEPT !.c = call'.args[3]]
                        ELSE log[i]]
           /\ Len(notes') = 1
           /\ notes'[1].parts = <<call'.args[2], call'.args[3]>>
     /\ (/\ call'.op = "rename"
         /\ call'.args[1] = S_project
         /\ \E i \in 1 .. Len(log) : log[i].t = call'.args[2])
        => /\ log' = [i \in 1 .. Len(log) |->
                        IF log[i].t = call'.args[2]
                        THEN [log[i] EXCEPT !.t = call'.args[3]]
                        ELSE log[i]]
           /\ Len(notes') = 1
           /\ notes'[1].parts = <<call'.args[2], call'.args[3]>>]_vars

\* C10: rename with category sector or project and an old name that no entry
\* has in that field emits a "not found" notification and leaves the log
\* unchanged.
C10_RenameNotFoundNotifies ==
  [][(/\ call'.op = "rename"
      /\ \/ /\ call'.args[1] = S_sector
            /\ \A i \in 1 .. Len(log) : log[i].c # call'.args[2]
         \/ /\ call'.args[1] = S_project
            /\ \A i \in 1 .. Len(log) : log[i].t # call'.args[2])
       => /\ log' = log
          /\ Len(notes') = 1
          /\ notes'[1].text \in {"The sector does not exist in your logs",
                                 "The project does not exist in your logs"}
          /\ notes'[1].parts = <<call'.args[2]>>]_vars

\* The aliases of the operation registry.
RegistryAliases ==
  {S_start, S_begin, S_stop, S_end, S_pause, S_resume, S_continue, S_add,
   S_new, S_edit, S_delete, S_set, S_import, S_export, S_rename, S_invert}

\* C11: parseCmd accepts an input exactly when its first space-delimited
\* token, lower-cased, is a registry alias (new among them); any other
\* input returns nothing, and parsing leaves the log and the notifications
\* as they were.
C11_AcceptsExactlyTheAliases ==
  call.op = "parseCmd"
    => /\ parsed.ok <=> toLowerCase(SplitFirst(input)) \in RegistryAliases
       /\ log = <<>>
       /\ notes = <<>>

\* The positions of the double quotes of str, and the k-th of them.
QuotesOf(str) == {i \in 1 .. Len(str) : str[i] = "\""}
NthQuote(str, k) ==
  CHOOSE i \in QuotesOf(str) :
    Cardinality({j \in QuotesOf(str) : j <= i}) = k

\* The texts between the 1st and 2nd, the 3rd and 4th, ... quote of str.
BetweenQuotePairs(str) ==
  [k \in 1 .. (Cardinality(QuotesOf(str)) \div 2) |->
     SubSeq(str, NthQuote(str, 2 * k - 1) + 1, NthQuote(str, 2 * k) - 1)]

\* C13: for an accepted input, the args parseCmd returns are exactly the
\* texts between the 1st and 2nd, 3rd and 4th, ... double quote of the
\* input, in order: nothing outside a quote pair is in an argument, the text
\* after an unmatched last quote is dropped, and no quote pair gives no args.
C13_ArgsAreTheQuotedTexts ==
  (call.op = "parseCmd" /\ parsed.ok)
    => parsed.args = BetweenQuotePairs(input)

\* An accepted input with two quote pairs, an unmatched last quote and text
\* outside the quotes.
C13_Witness ==
  /\ call.op = "parseCmd"
  /\ parsed.ok
  /\ Len(parsed.args) = 2
  /\ Cardinality(QuotesOf(input)) = 5
  /\ input[Len(input)] = "a"

\* C14: re-parsing the line written from an accepted Command, its operation
\* followed by each argument in double quotes, gives a Command with the same
\* operation and the same args in the same order.
C14_ReparseGivesTheSameCommand ==
  [][call'.op = "reparse"
       => /\ parsed'.ok
          /\ parsed'.operation = parsed.operation
          /\ parsed'.args = parsed.args]_vars

\* A re-parsed command of two arguments, one of them with a space in it.
C14_Witness ==
  /\ call.op = "reparse"
  /\ parsed.ok
  /\ Len(parsed.args) = 2
  /\ \E k \in 1 .. 2 : \E i \in 1 .. Len(parsed.args[k]) : parsed.args[k][i] = " "

\* The handler of each registry alias.
HandlerOf(op) ==
  IF op \in {S_start, S_begin} THEN "startLog"
  ELSE IF op \in {S_stop, S_end, S_pause} THEN "endLog"
  ELSE IF op \in {S_resume, S_continue} THEN "resume"
  ELSE IF op \in {S_add, S_new} THEN "addLog"
  ELSE IF op = S_edit THEN "edit"
  ELSE IF op = S_delete THEN "delete"
  ELSE IF op = S_set THEN "set"
  ELSE IF op = S_import THEN "importUser"
  ELSE IF op = S_export THEN "exportUser"
  ELSE IF op = S_rename THEN "rename"
  ELSE "invert"

\* C12: for a Command whose operation is a registry alias, executeCmd calls
\* exactly one handler, the one of the alias's kind (continue calls resume
\* only); for any other operation it calls no handler and changes nothing.
C12_DispatchCallsTheHandler ==
  [][call'.op = "executeCmd"
       => IF call'.args[1] \in RegistryAliases
          THEN handlers' = <<HandlerOf(call'.args[1])>>
          ELSE /\ handlers' = <<>>
               /\ log' = log
               /\ ui' = ui
               /\ notes' = <<>>]_vars

\* C17: executeCmd on a Command the parser can produce raises no error,
\* however few args it has (args = [] included).
C17_ShortArgsRaiseNoError ==
  [][(call'.op = "executeCmd" /\ call'.args[1] \in Range(possibleOperations))
       => err' = "none"]_vars

\* The field each attribute name of edit stands for.
RecognisedAttrs ==
  {S_sector, S_sec, S_project, S_title, S_pro, S_description, S_desc, S_dsc,
   S_start, S_end}
FieldOf(attr) ==
  IF attr \in {S_sector, S_sec} THEN "c"
  ELSE IF attr \in {S_project, S_title, S_pro} THEN "t"
  ELSE IF attr \in {S_description, S_desc, S_dsc} THEN "d"
  ELSE IF attr = S_start THEN "s"
  ELSE "e"

\* C15: edit(id, attr, value) with an id that is a position of the log and
\* a recognised attr changes only the field attr stands for, of the entry at
\* id only (to value itself for sector, project and description); with an
\* unrecognised attr it changes nothing, notifies nothing and signals no
\* refresh.
C15_EditChangesOneField ==
  [][call'.op = "edit"
       => IF call'.args[1] \in RecognisedAttrs
          THEN (~call'.id.nan /\ call'.id.n \in 0 .. Len(log) - 1)
                 => LET k == call'.id.n + 1
                        f == FieldOf(call'.args[1])
                    IN /\ log' = [log EXCEPT ![k] =
                                    [@ EXCEPT ![f] = log'[k][f]]]
                       /\ f \in {"c", "t", "d"} => log'[k][f] = call'.args[2]
                       /\ f \in {"s", "e"} => log'[k][f] # log[k][f]
          ELSE /\ log' = log
               /\ notes' = <<>>
               /\ updates' = 0]_vars

\* An edit of the project of the second of three entries.
C15_Witness ==
  /\ call.op = "edit"
  /\ call.id = Num(1)
  /\ call.args = <<S_title, B>>
  /\ Len(log) = 3
  /\ log[1].t = P
  /\ log[2].t = B
  /\ log[3].t = P
  /\ log[2].d = D

\* C16: edit with an id that is no position of the log (row number 0, a row
\* number above the length, a row number that is no number) raises no error
\* and leaves the log unchanged.
C16_EditAbsentIsNoOp ==
  [][(/\ call'.op = "edit"
      /\ (call'.id.nan \/ call'.id.n < 0 \/ call'.id.n >= Len(log)))
       => /\ err' = "none"
          /\ log' = log]_vars

\* The eight log operations.
LogOperations ==
  {"startLog", "endLog", "resume", "addLog", "edit", "delete", "rename",
   "invert"}

\* C18: every invocation of one of the eight log operations that changes
\* the log or the palette calls Log.options.update() exactly once before it
\* returns.
C18_MutationSignalsRefreshOnce ==
  [][(call'.op \in LogOperations /\ (log' # log \/ ui' # ui))
       => updates' = 1]_vars

\* An invert that swapped the palette and signalled the refresh.
C18_Witness ==
  /\ call.op = "invert"
  /\ ui = [bg |-> "fg", colour |-> "bg"]
  /\ updates = 1

\* C19: every invocation of one of the eight log operations that changes
\* the log or the palette emits a notification, and the notification names
\* what was acted on.
C19_MutationNotifies ==
  [][(call'.op \in LogOperations /\ (log' # log \/ ui' # ui))
       => /\ Len(notes') >= 1
          /\ Len(notes'[1].parts) >= 1]_vars

\* C20: in a run of startLog, endLog and resume() alone, an entry with
\* e = 'undefined' is always the last one (so there is at most one); no step
\* removes an entry or changes anything but the e field of the last entry,
\* and a step that raises an error leaves the log as it was.
C20_CoreKeepsOneOpenLast ==
  [][/\ \A i \in 1 .. Len(log') : log'[i].e = Open => i = Len(log')
     /\ Len(log') >= Len(log)
     /\ \A i \in 1 .. Len(log) :
          \/ log'[i] = log[i]
          \/ i = Len(log) /\ log'[i] = [log[i] EXCEPT !.e = log'[i].e]
     /\ err' # "none" => log' = log]_vars

\* A default resume that opened a third entry after two closed ones.
C20_Witness ==
  /\ call.op = "resume"
  /\ call.id = Num(-1)
  /\ notes # <<>>
  /\ Len(log) = 3
  /\ log[1].e # Open
  /\ log[2].e # Open
  /\ log[3].e = Open
  /\ log[3].c = log[2].c

====
